---- MODULE Spec2Model ----
(***************************************************************************)
(* A model of plate_map_generator.py: the layout constants, the            *)
(* well-identifier lookup get_well_coords, the drawing functions and the   *)
(* __main__ run that draws the 96-well plate map, downsamples it and       *)
(* saves it.                                                               *)
(*                                                                         *)
(* Strings that the code indexes or parses (well identifiers, column       *)
(* labels) are sequences of one-character strings.  All layout values of   *)
(* the program are floats with integral values (840.0, 120.0, 1860.0 ...), *)
(* so pixel coordinates are integers here.  Font sizes are the one place   *)
(* where fractions appear (180 * 0.7^k): they are kept in units of 1/FP    *)
(* pixel and every product is rounded down to that unit, the way the       *)
(* float product is rounded to the float grid.                             *)
(***************************************************************************)
EXTENDS Integers, Sequences, FiniteSets, TLC

\* ------------------------------------------------------------------ bounds

\* Longest annotation list read from the CSV.
MaxAnnots == 2

\* Most get_well_coords queries recorded by the layout-query specification.
MaxQueries == 2

\* ------------------------------------------------------- layout constants

RES_FACTOR == 4

DPI == 300

NUM_ROWS == 8

NUM_COLS == 12

\* IMG_SIZE = (int(11 * DPI) * RES_FACTOR, int(8.5 * DPI) * RES_FACTOR)
IMG_SIZE == << (11 * DPI) * RES_FACTOR, ((85 * DPI) \div 10) * RES_FACTOR >>

\* 0.7 * DPI * RES_FACTOR
WELL_DIAMETER == (7 * DPI * RES_FACTOR) \div 10

\* 0.1 * DPI * RES_FACTOR
WELL_PADDING == (1 * DPI * RES_FACTOR) \div 10

X_START_shifted == IMG_SIZE[1] \div 2 - (NUM_COLS * (WELL_DIAMETER + WELL_PADDING)) \div 2
                   + WELL_PADDING \div 2

X_START == IMG_SIZE[1] \div 2 - (NUM_COLS * (WELL_DIAMETER + WELL_PADDING)) \div 2

Y_START == IMG_SIZE[2] \div 2 - (NUM_ROWS * (WELL_DIAMETER + WELL_PADDING)) \div 2
           + (5 * DPI * RES_FACTOR) \div 10

ROW_LABELS == << "A", "B", "C", "D", "E", "F", "G", "H" >>

DIGITS == << "0", "1", "2", "3", "4", "5", "6", "7", "8", "9" >>

\* Font sizes are held in units of 1/FP pixel.
FP == 10 * 10 * 10

\* 0.3 * DPI * RES_FACTOR
ROW_COL_FONT_SIZE == ((3 * DPI * RES_FACTOR) * FP) \div 10

\* 0.15 * DPI * RES_FACTOR
ANNOT_FONT_SIZE == ((15 * DPI * RES_FACTOR) * FP) \div 100

\* 0.4 * DPI * RES_FACTOR
TITLE_FONT_SIZE == ((4 * DPI * RES_FACTOR) * FP) \div 10

\* ------------------------------------------------------------- str and int

Range(s) == { s[i] : i \in DOMAIN s }

IndexOf(s, c) == CHOOSE i \in DOMAIN s : s[i] = c /\ \A j \in 1..(i - 1) : s[j] # c

IsDigit(c) == c \in Range(DIGITS)

DigitVal(c) == IndexOf(DIGITS, c) - 1

\* str(i) for i >= 0
RECURSIVE PyStr(_)
PyStr(i) == IF i < 10 THEN << DIGITS[i + 1] >>
            ELSE Append(PyStr(i \div 10), DIGITS[(i % 10) + 1])

\* COL_LABELS = [str(i) for i in range(1, NUM_COLS + 1)]
COL_LABELS == [ i \in 1..NUM_COLS |-> PyStr(i) ]

RECURSIVE LStrip(_)
LStrip(s) == IF s # << >> /\ Head(s) = " " THEN LStrip(Tail(s)) ELSE s

RECURSIVE RStrip(_)
RStrip(s) == IF s # << >> /\ s[Len(s)] = " " THEN RStrip(SubSeq(s, 1, Len(s) - 1)) ELSE s

\* The digits of an int() literal: decimal digits, single underscores between them.
IsIntBody(s) ==
    /\ s # << >>
    /\ IsDigit(s[1])
    /\ IsDigit(s[Len(s)])
    /\ \A i \in DOMAIN s : IsDigit(s[i]) \/ s[i] = "_"
    /\ \A i \in 1..(Len(s) - 1) : ~(s[i] = "_" /\ s[i + 1] = "_")

RECURSIVE IntBodyValue(_)
IntBodyValue(s) ==
    IF s = << >> THEN 0
    ELSE LET init == SubSeq(s, 1, Len(s) - 1)
             last == s[Len(s)]
         IN  IF last = "_" THEN IntBodyValue(init)
             ELSE 10 * IntBodyValue(init) + DigitVal(last)

\* int(s): surrounding blanks are stripped, one sign is allowed; anything else
\* that is not a decimal literal raises ValueError.
PyInt(s) ==
    LET t    == RStrip(LStrip(s))
        sgn  == t # << >> /\ Head(t) \in { "+", "-" }
        body == IF sgn THEN Tail(t) ELSE t
    IN  IF IsIntBody(body)
        THEN [ ok |-> TRUE,
               val |-> IF sgn /\ Head(t) = "-" THEN 0 - IntBodyValue(body)
                       ELSE IntBodyValue(body) ]
        ELSE [ ok |-> FALSE, err |-> "ValueError" ]

\* ------------------------------------------------------- get_well_coords

get_well_coords_rowcol(well) ==
    IF Len(well) = 0 THEN [ ok |-> FALSE, err |-> "IndexError" ]
    ELSE LET row == well[1]
             col == PyInt(Tail(well))
         IN  IF ~col.ok THEN [ ok |-> FALSE, err |-> "ValueError" ]
             ELSE IF row \notin Range(ROW_LABELS) THEN [ ok |-> FALSE, err |-> "ValueError" ]
             ELSE LET row_idx == IndexOf(ROW_LABELS, row) - 1
                      col_idx == col.val - 1
                  IN  [ ok |-> TRUE,
                        xy |-> << X_START + row_idx * (WELL_DIAMETER + WELL_PADDING)
                                    + WELL_DIAMETER \div 2,
                                  Y_START + col_idx * (WELL_DIAMETER + WELL_PADDING)
                                    + WELL_DIAMETER \div 2 >> ]

\* Returns the centre of the well, or the exception the call raises.
get_well_coords(well) ==
    IF Len(well) = 0 THEN [ ok |-> FALSE, err |-> "IndexError" ]
    ELSE LET row == well[1]
             col == PyInt(Tail(well))
         IN  IF ~col.ok THEN [ ok |-> FALSE, err |-> "ValueError" ]
             ELSE IF row \notin Range(ROW_LABELS) THEN [ ok |-> FALSE, err |-> "ValueError" ]
             ELSE LET row_idx == IndexOf(ROW_LABELS, row) - 1
                      col_idx == col.val - 1
                  IN  [ ok |-> TRUE,
                        xy |-> << X_START + col_idx * (WELL_DIAMETER + WELL_PADDING)
                                    + WELL_DIAMETER \div 2,
                                  Y_START + row_idx * (WELL_DIAMETER + WELL_PADDING)
                                    + WELL_DIAMETER \div 2 >> ]

\* ------------------------------------------------------------------ state

VARIABLES
    annots,         \* import_annotations(args.annotation_csv): the CSV rows, in order
    csv_columns,    \* the columns the CSV header has (the keys of every row dict)
    arial_ok,       \* whether ImageFont.truetype can open "arial.ttf"
    title,          \* args.title
    subtitle,       \* args.subtitle
    date_text,      \* args.date
    out_dir,        \* args.output
    pc,             \* the statement of __main__ (or of draw_annotations) that runs next
    error,          \* the exception that ended the run, "" when none
    image,          \* the supersampled canvas: its size and how many drawing calls it took
    outlines,       \* draw.ellipse boxes of draw_template_platemap, by (row, col)
    axis_labels,    \* the row and column labels drawn, and the font they were drawn with
    wells,          \* what draw_annotations left at each centre: fill and label text
    header,         \* the title, subtitle and date text drawn
    i,              \* draw_annotations: index of the record being processed (from 1)
    coords,         \* draw_annotations: coords of every record resolved so far
    annot_font,     \* draw_annotations: the font of the current label
    annot_width,    \* draw_annotations: measured width of the current label
    red_annot_font_size, \* draw_annotations: the reduced font size
    resized_img,    \* image.resize(...): the downsampled image
    outfile,        \* the output path
    files,          \* the files the run has written
    queried         \* layout queries: the get_well_coords calls made and their results

inputs == << annots, csv_columns, arial_ok, title, subtitle, date_text, out_dir >>

canvas == << image, outlines, axis_labels, wells, header >>

annot_locals == << i, coords, annot_font, annot_width, red_annot_font_size >>

output == << resized_img, outfile, files >>

vars == << inputs, pc, error, canvas, annot_locals, output, queried >>

None == "None"

NoImage == [ size |-> << 0, 0 >>, ops |-> 0 ]

NoResized == [ size |-> << 0, 0 >>, ops |-> 0, pass |-> 0 ]

NoFont == [ face |-> None, size |-> 0 ]

NoText == [ drawn |-> FALSE, label |-> 0, color |-> << 0, 0, 0 >>, size |-> 0 ]

NoLabels == [ drawn |-> FALSE, font |-> None, rows |-> << >>, cols |-> << >> ]

NoHeader == [ title |-> None, subtitle |-> None, date |-> None ]

ALL_COLUMNS == { "well", "fill", "label", "label_color" }

\* ------------------------------------------------------------------ inputs

\* Labels are given by the number of characters of their widest line.
ShortLabel == 1
WrapLabel == 12
LongLabel == 30
EndlessLabel == 2000

W_A1 == << "A", "1" >>
W_A01 == << "A", "0", "1" >>
W_B2 == << "B", "2" >>
W_H12 == << "H", "1", "2" >>
W_A13 == << "A", "1", "3" >>
W_I1 == << "I", "1" >>

Annot(w, f, l, c) == [ well |-> w, fill |-> f, label |-> l, label_color |-> c ]

AnnotRows ==
    { Annot(W_A1, "red", ShortLabel, "blue"),
      Annot(W_A01, "", WrapLabel, ""),
      Annot(W_H12, "", ShortLabel, ""),
      Annot(W_A13, "blue", ShortLabel, ""),
      Annot(W_I1, "red", ShortLabel, ""),
      Annot(W_B2, "notacolor", ShortLabel, ""),
      Annot(W_B2, "", EndlessLabel, ""),
      Annot(W_A1, "blue", LongLabel, "notacolor") }

SeqsUpTo(S, n) == UNION { [ 1..k -> S ] : k \in 0..n }

ColumnSets == { ALL_COLUMNS, ALL_COLUMNS \ { "label_color" } }

\* The command lines tried: -t, -s, -d and -o, each absent (None), empty or given.
Args(t, s, d, o) == [ title |-> t, subtitle |-> s, date |-> d, output |-> o ]

ArgSets ==
    { Args(None, None, None, None),
      Args("Plate 7", "batch 2", "2025.01.31", "map.png"),
      Args("Plate 7", None, "2025.01.31", "/missing/map.png"),
      Args(None, "batch 2", None, "/missing/map.png"),
      Args("", "", "", "") }

\* ------------------------------------------------- the imaging libraries

Max(a, b) == IF a >= b THEN a ELSE b

\* webcolors.name_to_rgb: the CSS colour table, ValueError for any other name.
name_to_rgb(name) ==
    CASE name = "red"  -> [ ok |-> TRUE, rgb |-> << 255, 0, 0 >> ]
      [] name = "blue" -> [ ok |-> TRUE, rgb |-> << 0, 0, 255 >> ]
      [] OTHER         -> [ ok |-> FALSE, err |-> "ValueError" ]

\* ImageFont.truetype("arial.ttf", size): OSError when the font file cannot be opened.
truetype(size) ==
    IF arial_ok THEN [ ok |-> TRUE, font |-> [ face |-> "arial.ttf", size |-> size ] ]
    ELSE [ ok |-> FALSE, err |-> "OSError" ]

\* draw.textbbox((0,0), label, font=...)[2]: the width in pixels of the widest
\* line.  A glyph advances half the font size on average, and the rasteriser
\* never sets a font smaller than one pixel.
textbbox_width(label, size) == (label * Max(size, FP) + 2 * FP - 1) \div (2 * FP)

\* Python truth value of an optional string argument.
Truthy(s) == s # None /\ s # ""

\* ------------------------------------------------------------- the canvas

\* draw.circle(xy, radius, fill=...) covers what was drawn at that centre before.
DrawCircle_keep(w, xy, fill) ==
    [ c \in DOMAIN w \cup { xy } |->
        IF c \in DOMAIN w THEN w[c] ELSE [ fill |-> fill, radius |-> WELL_DIAMETER \div 2,
                                           text |-> NoText ] ]

DrawCircle(w, xy, fill) ==
    [ c \in DOMAIN w \cup { xy } |->
        IF c = xy THEN [ fill |-> fill, radius |-> WELL_DIAMETER \div 2, text |-> NoText ]
        ELSE w[c] ]

DrawText(w, xy, label, color, font) ==
    [ w EXCEPT ![xy].text = [ drawn |-> TRUE, label |-> label, color |-> color,
                              size |-> font.size ] ]

Painted(img, n) == [ img EXCEPT !.ops = @ + n ]

Fail(kind) == pc' = "failed" /\ error' = kind

\* -------------------------------------------------------------- __main__

Init ==
    /\ annots \in SeqsUpTo(AnnotRows, MaxAnnots)
    /\ csv_columns \in ColumnSets
    /\ arial_ok \in BOOLEAN
    /\ \E args \in ArgSets :
         /\ title = args.title
         /\ subtitle = args.subtitle
         /\ date_text = args.date
         /\ out_dir = args.output
    /\ pc = "new_image"
    /\ error = ""
    /\ image = NoImage
    /\ outlines = << >>
    /\ axis_labels = NoLabels
    /\ wells = << >>
    /\ header = NoHeader
    /\ i = 0
    /\ coords = << >>
    /\ annot_font = NoFont
    /\ annot_width = 0
    /\ red_annot_font_size = 0
    /\ resized_img = NoResized
    /\ outfile = None
    /\ files = << >>
    /\ queried = { }

\* image = Image.new('RGB', IMG_SIZE, color=(255, 255, 255)); draw = ImageDraw.Draw(image)
NewImage ==
    /\ pc = "new_image"
    /\ image' = [ size |-> IMG_SIZE, ops |-> 0 ]
    /\ pc' = "draw_template_platemap"
    /\ UNCHANGED << inputs, error, outlines, axis_labels, wells, header,
                    annot_locals, output, queried >>

OutlineBox_centred(row, col) ==
    LET x == X_START + col * (WELL_DIAMETER + WELL_PADDING)
        y == Y_START + row * (WELL_DIAMETER + WELL_PADDING)
    IN  << x - WELL_DIAMETER \div 2, y - WELL_DIAMETER \div 2,
           x + WELL_DIAMETER \div 2, y + WELL_DIAMETER \div 2 >>

\* The box of the ellipse drawn for the well at (row, col), both from 0.
OutlineBox(row, col) ==
    LET x == X_START + col * (WELL_DIAMETER + WELL_PADDING)
        y == Y_START + row * (WELL_DIAMETER + WELL_PADDING)
    IN  << x, y, x + WELL_DIAMETER, y + WELL_DIAMETER >>

\* draw_template_platemap(draw): the font (the built-in one when arial.ttf cannot
\* be loaded), the 96 outlines, the 8 row labels and the 12 column labels.
DrawTemplatePlatemap ==
    /\ pc = "draw_template_platemap"
    /\ LET font == IF truetype(ROW_COL_FONT_SIZE).ok THEN truetype(ROW_COL_FONT_SIZE).font
                   ELSE [ face |-> "default", size |-> 0 ]
       IN  /\ outlines' = [ rc \in (0..(NUM_ROWS - 1)) \X (0..(NUM_COLS - 1)) |->
                              OutlineBox(rc[1], rc[2]) ]
           /\ axis_labels' = [ drawn |-> TRUE, font |-> font.face,
                               rows |-> ROW_LABELS, cols |-> COL_LABELS ]
           /\ image' = Painted(image, NUM_ROWS * NUM_COLS + NUM_ROWS + NUM_COLS)
    /\ pc' = "draw_annotations"
    /\ i' = 1
    /\ UNCHANGED << inputs, error, wells, header, coords, annot_font, annot_width,
                    red_annot_font_size, output, queried >>

\* ------------------------------------------------------ draw_annotations

White == << 255, 255, 255 >>

Black == << 0, 0, 0 >>

\* Lines 119-132 for record i: resolve the well, resolve the fill, draw the circle,
\* load the nominal font and measure the label.  An exception ends the run at
\* the statement that raised it, with what was drawn before it left on the canvas.
AnnotCircle ==
    /\ pc = "draw_annotations"
    /\ i <= Len(annots)
    /\ LET annot == annots[i]
           xy    == get_well_coords(annot.well)
           fill_color == IF annot.fill # "" THEN name_to_rgb(annot.fill)
                         ELSE [ ok |-> TRUE, rgb |-> White ]
           font  == truetype(ANNOT_FONT_SIZE)
       IN  IF "well" \notin csv_columns \/ ~xy.ok
           THEN /\ Fail(IF "well" \notin csv_columns THEN "KeyError" ELSE xy.err)
                /\ UNCHANGED << canvas, annot_locals >>
           ELSE IF "fill" \notin csv_columns \/ ~fill_color.ok
           THEN /\ Fail(IF "fill" \notin csv_columns THEN "KeyError" ELSE fill_color.err)
                /\ coords' = Append(coords, xy.xy)
                /\ UNCHANGED << canvas, i, annot_font, annot_width, red_annot_font_size >>
           ELSE /\ coords' = Append(coords, xy.xy)
                /\ wells' = DrawCircle(wells, xy.xy, fill_color.rgb)
                /\ image' = Painted(image, 1)
                /\ UNCHANGED << outlines, axis_labels, header, i >>
                /\ IF "label" \notin csv_columns \/ ~font.ok
                   THEN /\ Fail(IF "label" \notin csv_columns THEN "KeyError" ELSE font.err)
                        /\ UNCHANGED << annot_font, annot_width, red_annot_font_size >>
                   ELSE /\ annot_font' = font.font
                        /\ annot_width' = textbbox_width(annot.label, ANNOT_FONT_SIZE)
                        /\ red_annot_font_size' = ANNOT_FONT_SIZE
                        /\ pc' = "while"
                        /\ UNCHANGED error
    /\ UNCHANGED << inputs, output, queried >>

\* red_annot_font_size * 0.7
Shrink_half(size) == (size * 5) \div 10

Shrink(size) == (size * 7) \div 10

\* while annot_width > WELL_DIAMETER
Overflows(width) == width > WELL_DIAMETER

\* Lines 133-137, one iteration of the loop: shrink, reload the font, measure
\* again.  Once the size has been rounded down to zero the font library either
\* refuses it (ValueError, a size must be greater than 0) or clamps it to its
\* smallest size, depending on its version.
ShrinkFont ==
    /\ pc = "while"
    /\ Overflows(annot_width)
    /\ LET size == Shrink(red_annot_font_size)
           font == truetype(size)
       IN  /\ red_annot_font_size' = size
           /\ \E refused \in IF size <= 0 THEN BOOLEAN ELSE { FALSE } :
                IF ~font.ok \/ refused
                THEN /\ Fail(IF ~font.ok THEN font.err ELSE "ValueError")
                     /\ UNCHANGED << annot_font, annot_width >>
                ELSE /\ annot_font' = font.font
                     /\ annot_width' = textbbox_width(annots[i].label, size)
                     /\ UNCHANGED << pc, error >>
    /\ UNCHANGED << inputs, canvas, i, coords, output, queried >>

\* Lines 139-145: resolve the label colour and draw the label, centred on the well,
\* with the font the loop ended with.
AnnotText ==
    /\ pc = "while"
    /\ ~Overflows(annot_width)
    /\ LET annot == annots[i]
           label_color == IF annot.label_color # "" THEN name_to_rgb(annot.label_color)
                          ELSE [ ok |-> TRUE, rgb |-> Black ]
       IN  IF "label_color" \notin csv_columns \/ ~label_color.ok
           THEN /\ Fail(IF "label_color" \notin csv_columns THEN "KeyError"
                        ELSE label_color.err)
                /\ UNCHANGED << canvas, i >>
           ELSE /\ wells' = DrawText(wells, coords[i], annot.label, label_color.rgb, annot_font)
                /\ image' = Painted(image, 1)
                /\ i' = i + 1
                /\ pc' = "draw_annotations"
                /\ UNCHANGED << error, outlines, axis_labels, header >>
    /\ UNCHANGED << inputs, coords, annot_font, annot_width, red_annot_font_size,
                    output, queried >>

\* The for loop of draw_annotations is exhausted: the function returns.
AnnotationsReturn ==
    /\ pc = "draw_annotations"
    /\ i > Len(annots)
    /\ pc' = "draw_title"
    /\ UNCHANGED << inputs, error, canvas, annot_locals, output, queried >>

\* ------------------------------------------------ title, subtitle and date

\* if title: draw_title(draw, title)
DrawTitle ==
    /\ pc = "draw_title"
    /\ IF ~Truthy(title)
       THEN pc' = "draw_subtitle" /\ UNCHANGED << error, header, image >>
       ELSE IF ~truetype(TITLE_FONT_SIZE).ok
       THEN Fail(truetype(TITLE_FONT_SIZE).err) /\ UNCHANGED << header, image >>
       ELSE /\ header' = [ header EXCEPT !.title = title ]
            /\ image' = Painted(image, 1)
            /\ pc' = "draw_subtitle"
            /\ UNCHANGED error
    /\ UNCHANGED << inputs, outlines, axis_labels, wells, annot_locals, output, queried >>

\* if subtitle: draw_subtitle(draw, subtitle)
DrawSubtitle ==
    /\ pc = "draw_subtitle"
    /\ IF ~Truthy(subtitle)
       THEN pc' = "draw_date" /\ UNCHANGED << error, header, image >>
       ELSE IF ~truetype(TITLE_FONT_SIZE).ok \/ ~truetype(TITLE_FONT_SIZE \div 2).ok
       THEN Fail("OSError") /\ UNCHANGED << header, image >>
       ELSE /\ header' = [ header EXCEPT !.subtitle = subtitle ]
            /\ image' = Painted(image, 1)
            /\ pc' = "draw_date"
            /\ UNCHANGED error
    /\ UNCHANGED << inputs, outlines, axis_labels, wells, annot_locals, output, queried >>

\* draw_date(draw, date_text): always called; the current date when no text is given.
DrawDate ==
    /\ pc = "draw_date"
    /\ IF ~truetype(TITLE_FONT_SIZE).ok \/ ~truetype(TITLE_FONT_SIZE \div 2).ok
       THEN Fail("OSError") /\ UNCHANGED << header, image >>
       ELSE /\ header' = [ header EXCEPT !.date = IF Truthy(date_text) THEN date_text
                                                  ELSE "%Y.%m.%d" ]
            /\ image' = Painted(image, 1)
            /\ pc' = "resize"
            /\ UNCHANGED error
    /\ UNCHANGED << inputs, outlines, axis_labels, wells, annot_locals, output, queried >>

\* ------------------------------------------------------------ output stage

\* (11 * DPI, int(8.5 * DPI))
ResizeTarget_full == IMG_SIZE

ResizeTarget == << 11 * DPI, (85 * DPI) \div 10 >>

\* Lines 197-203: the output path, then the one downsampling of the canvas.
Resize ==
    /\ pc = "resize"
    /\ outfile' = IF ~Truthy(out_dir) THEN "%Y-%m-%d_%H%M%S_plate_map.png" ELSE out_dir
    /\ resized_img' = [ size |-> ResizeTarget, ops |-> image.ops,
                        pass |-> resized_img.pass + 1 ]
    /\ pc' = "save"
    /\ UNCHANGED << inputs, error, canvas, annot_locals, files, queried >>

\* Whether the path can be opened for writing.
Writable(path) == path # "/missing/map.png"

Save_partial ==
    /\ pc = "save"
    /\ files' = Append(files, [ name |-> outfile, size |-> resized_img.size,
                                ops |-> resized_img.ops ])
    /\ IF Writable(outfile) THEN pc' = "done" /\ UNCHANGED error ELSE Fail("OSError")
    /\ UNCHANGED << inputs, canvas, annot_locals, resized_img, outfile, queried >>

\* resized_img.save(outfile)
Save ==
    /\ pc = "save"
    /\ IF Writable(outfile)
       THEN /\ files' = Append(files, [ name |-> outfile, size |-> resized_img.size,
                                        ops |-> resized_img.ops ])
            /\ pc' = "done"
            /\ UNCHANGED error
       ELSE Fail("OSError") /\ UNCHANGED files
    /\ UNCHANGED << inputs, canvas, annot_locals, resized_img, outfile, queried >>

Next ==
    \/ NewImage
    \/ DrawTemplatePlatemap
    \/ AnnotCircle
    \/ ShrinkFont
    \/ AnnotText
    \/ AnnotationsReturn
    \/ DrawTitle
    \/ DrawSubtitle
    \/ DrawDate
    \/ Resize
    \/ Save

Spec == Init /\ [][Next]_vars

\* ---------------------------------------------------------- layout queries

\* The identifier of the well in row r (1..8) and column c (1..12): "A1" .. "H12".
WellId(r, c) == << ROW_LABELS[r] >> \o COL_LABELS[c]

ValidWellIds == { WellId(r, c) : r \in 1..NUM_ROWS, c \in 1..NUM_COLS }

OtherWellIds ==
    { << >>, << "A" >>, << "I", "1" >>, << "Z", "5" >>, << "a", "1" >>,
      << "A", "0" >>, << "A", "1", "3" >>, << "H", "9", "9" >>, << "I", "1", "3" >>,
      << "A", "0", "1" >>, << "A", "-", "1" >>, << "A", "+", "1" >>, << "A", " ", "1" >>,
      << "A", "1", "_", "0" >>, << "A", "1", "_" >>, << "A", "A", "1" >>,
      << "A", "1", ".", "0" >> }

WellIds == ValidWellIds \cup OtherWellIds

InitCoords ==
    /\ annots = << >>
    /\ csv_columns = ALL_COLUMNS
    /\ arial_ok = TRUE
    /\ title = None
    /\ subtitle = None
    /\ date_text = None
    /\ out_dir = None
    /\ pc = "query"
    /\ error = ""
    /\ image = NoImage
    /\ outlines = << >>
    /\ axis_labels = NoLabels
    /\ wells = << >>
    /\ header = NoHeader
    /\ i = 0
    /\ coords = << >>
    /\ annot_font = NoFont
    /\ annot_width = 0
    /\ red_annot_font_size = 0
    /\ resized_img = NoResized
    /\ outfile = None
    /\ files = << >>
    /\ queried = { }

\* One call get_well_coords(well), its result kept with the identifier.
QueryWell ==
    /\ pc = "query"
    /\ Cardinality(queried) < MaxQueries
    /\ \E well \in WellIds :
         queried' = queried \cup { [ well |-> well, res |-> get_well_coords(well) ] }
    /\ UNCHANGED << inputs, pc, error, canvas, annot_locals, output >>

NextCoords == QueryWell

SpecCoords == InitCoords /\ [][NextCoords]_vars

\* ------------------------------------------------------------------ claims

\* A well identifier the plate does not have: no row letter A-H, or a column
\* part that is not a number in 1..12.
InvalidWell(well) ==
    \/ Len(well) = 0
    \/ well[1] \notin Range(ROW_LABELS)
    \/ ~PyInt(Tail(well)).ok
    \/ PyInt(Tail(well)).val \notin 1..NUM_COLS

\* C1: get_well_coords fails, and returns no coordinate pair, for every well
\* identifier whose row letter is not one of A-H or whose column number is not in
\* 1-12 ("I1", "A13", "A0", "Z5", "").
C1_InvalidWellFails ==
    \A q \in queried : InvalidWell(q.well) => ~q.res.ok

\* The row and column (from 1) that an identifier of the plate names.
RowCol(well) == << IndexOf(ROW_LABELS, well[1]), PyInt(Tail(well)).val >>

\* C2: over the 96 valid wells get_well_coords is injective and the centres form a
\* regular grid: horizontal neighbours differ by WELL_DIAMETER + WELL_PADDING in x
\* with equal y, vertical neighbours by the same amount in y with equal x.
C2_RegularGrid ==
    LET valid == { [ rc |-> RowCol(q.well), res |-> q.res ] :
                     q \in { v \in queried : ~InvalidWell(v.well) } }
    IN  \A p, q \in valid :
            /\ p.res.ok
            /\ (p.rc # q.rc => p.res.xy # q.res.xy)
            /\ (p.rc[1] = q.rc[1] /\ q.rc[2] = p.rc[2] + 1 =>
                  /\ q.res.xy[1] - p.res.xy[1] = WELL_DIAMETER + WELL_PADDING
                  /\ q.res.xy[2] = p.res.xy[2])
            /\ (p.rc[2] = q.rc[2] /\ q.rc[1] = p.rc[1] + 1 =>
                  /\ q.res.xy[2] - p.res.xy[2] = WELL_DIAMETER + WELL_PADDING
                  /\ q.res.xy[1] = p.res.xy[1])

\* Two horizontally adjacent valid wells have been queried.
C2_Witness ==
    \E p, q \in queried :
        /\ ~InvalidWell(p.well) /\ ~InvalidWell(q.well)
        /\ RowCol(p.well)[1] = RowCol(q.well)[1]
        /\ RowCol(q.well)[2] = RowCol(p.well)[2] + 1

\* C3: the overflow loop of draw_annotations ends within a bounded number of
\* iterations for every label.  The bound is taken where the design puts it: the
\* loop has ended by the time the font size is below one pixel, so no iteration
\* starts from a size under one pixel.
C3_ShrinkBounded ==
    (pc = "while" /\ Overflows(annot_width)) => red_annot_font_size >= FP

\* Every drawing step of the run has completed.
AllDrawn ==
    /\ image.size = IMG_SIZE
    /\ outlines # << >>
    /\ axis_labels.drawn
    /\ i = Len(annots) + 1
    /\ Len(coords) = Len(annots)
    /\ \A k \in 1..Len(annots) : wells[coords[k]].text.drawn
    /\ (Truthy(title) => header.title = title)
    /\ (Truthy(subtitle) => header.subtitle = subtitle)
    /\ header.date # None
    /\ resized_img.pass = 1

\* C4: the output file is written only after the template, the annotations, the
\* title, subtitle and date and the resize have all completed without error; a
\* run that fails ends with no output file, and a successful run has written
\* exactly one file.
C4_NoPartialOutput ==
    /\ (files # << >> => AllDrawn /\ pc = "done" /\ error = "")
    /\ (pc = "failed" => files = << >> /\ error # "")
    /\ (pc = "done" => Len(files) = 1)

\* A run that got as far as the save and failed there, on an unwritable path.
C4_Witness ==
    /\ pc = "failed"
    /\ outfile = "/missing/map.png"
    /\ resized_img.pass = 1
    /\ files = << >>

\* C5: a failure to load the preferred font never ends the run: every text-drawing
\* operation falls back to a built-in font.  (Before the output stage the only
\* OSError is the one ImageFont.truetype raises.)
C5_FontFailureRecoverable ==
    ~arial_ok => ~(pc = "failed" /\ error = "OSError" /\ outfile = None)

Last(S) == CHOOSE k \in S : \A j \in S : j <= k

FillOf(annot) == IF annot.fill # "" THEN name_to_rgb(annot.fill).rgb ELSE White

\* C6: records are drawn in input order and the later draw covers the earlier one:
\* once draw_annotations has returned, every well shows the fill and the label of
\* the last record in the input that names it.
C6_LastRecordWins ==
    (i = Len(annots) + 1) =>
        /\ DOMAIN wells = Range(coords)
        /\ \A c \in DOMAIN wells :
             LET last == Last({ k \in DOMAIN coords : coords[k] = c })
             IN  /\ wells[c].fill = FillOf(annots[last])
                 /\ wells[c].text.drawn
                 /\ wells[c].text.label = annots[last].label

\* draw_annotations has returned after two records with different fills and labels
\* named the same well.
C6_Witness ==
    /\ i = Len(annots) + 1
    /\ \E j, k \in DOMAIN coords :
         /\ j < k
         /\ coords[j] = coords[k]
         /\ annots[j].fill # annots[k].fill
         /\ annots[j].label # annots[k].label

LeftMargin(r) == outlines[<< r, 0 >>][1]

RightMargin(r) == image.size[1] - outlines[<< r, NUM_COLS - 1 >>][3]

\* C7 as stated: the grid is centred horizontally, the distance from the left edge
\* of the canvas to the left edge of column 1's wells (X_START) equals the distance
\* from the right edge of column 12's wells to the right edge of the canvas.
C7_GridCentred ==
    outlines # << >> =>
        \A r \in 0..(NUM_ROWS - 1) :
            LeftMargin(r) = X_START /\ RightMargin(r) = LeftMargin(r)

\* C7 amended: the twelve column pitches of WELL_DIAMETER + WELL_PADDING are what is
\* centred, so the right margin is wider than the left one (X_START) by exactly
\* WELL_PADDING.
C7_GridCentredUpToPadding ==
    outlines # << >> =>
        \A r \in 0..(NUM_ROWS - 1) :
            /\ LeftMargin(r) = IMG_SIZE[1] \div 2
                                 - (NUM_COLS * (WELL_DIAMETER + WELL_PADDING)) \div 2
            /\ RightMargin(r) = LeftMargin(r) + WELL_PADDING

\* draw_template_platemap has drawn the outlines.
C7_Witness ==
    /\ pc = "draw_annotations"
    /\ outlines # << >>
    /\ LeftMargin(0) > 0

\* Most iterations of the overflow loop the statement of C8 looks at.
ShrinkHorizon == 40

\* ANNOT_FONT_SIZE * 0.7^k
RECURSIVE Scaled(_)
Scaled(k) == IF k = 0 THEN (15 * DPI * RES_FACTOR * FP) \div 100
             ELSE (Scaled(k - 1) * 7) \div 10

\* C8: every label is drawn at ANNOT_FONT_SIZE * 0.7^k for the least k >= 0 at which
\* its measured width does not exceed WELL_DIAMETER (k = 0, the nominal size, for a
\* label that fits as it is).
C8_LeastShrink ==
    \A c \in DOMAIN wells :
        wells[c].text.drawn =>
            \E k \in 0..ShrinkHorizon :
                /\ wells[c].text.size = Scaled(k)
                /\ textbbox_width(wells[c].text.label, Scaled(k)) <= WELL_DIAMETER
                /\ \A j \in 0..(k - 1) :
                     textbbox_width(wells[c].text.label, Scaled(j)) > WELL_DIAMETER

\* One label was drawn at the nominal size and another after the loop shrank it.
C8_Witness ==
    \E c, d \in DOMAIN wells :
        /\ wells[c].text.drawn /\ wells[c].text.size = Scaled(0)
        /\ wells[d].text.drawn /\ wells[d].text.size < Scaled(0)

\* C9: all drawing is done on a canvas RES_FACTOR times the output size in both
\* dimensions; the canvas is downsampled exactly once, after every drawing operation
\* and before the save; the saved image is 11*DPI by 8.5*DPI pixels (3300 x 2550) and
\* nothing is drawn after the downsampling.
C9_SupersampleThenDownsampleOnce ==
    /\ (pc # "new_image" =>
          image.size = << RES_FACTOR * 11 * DPI, RES_FACTOR * ((85 * DPI) \div 10) >>)
    /\ resized_img.pass <= 1
    /\ (resized_img.pass = 1 =>
          /\ resized_img.size = << 3300, 2550 >>
          /\ image.size = << RES_FACTOR * resized_img.size[1],
                             RES_FACTOR * resized_img.size[2] >>
          /\ resized_img.ops = image.ops
          /\ header.date # None
          /\ pc \in { "save", "done", "failed" })
    /\ (pc \in { "save", "done" } => resized_img.pass = 1)
    /\ \A k \in DOMAIN files :
          /\ files[k].size = << 11 * DPI, (85 * DPI) \div 10 >>
          /\ files[k].ops = image.ops

\* A run that saved its image.
C9_Witness ==
    /\ pc = "done"
    /\ Len(files) = 1
    /\ image.ops > NUM_ROWS * NUM_COLS

\* C10: draw_template_platemap and get_well_coords agree on the geometry: for every
\* row A-H and column 1-12 the outline drawn has the centre get_well_coords gives
\* and the diameter WELL_DIAMETER, which is the circle draw_annotations fills for
\* that well.
C10_TemplateMatchesCoords ==
    /\ (pc = "draw_annotations" =>
          \A r \in 1..NUM_ROWS, c \in 1..NUM_COLS :
              LET box    == outlines[<< r - 1, c - 1 >>]
                  centre == get_well_coords(WellId(r, c))
              IN  /\ centre.ok
                  /\ box[1] + box[3] = 2 * centre.xy[1]
                  /\ box[2] + box[4] = 2 * centre.xy[2]
                  /\ box[3] - box[1] = WELL_DIAMETER
                  /\ box[4] - box[2] = WELL_DIAMETER)
    /\ \A k \in DOMAIN coords :
          (~InvalidWell(annots[k].well) /\ coords[k] \in DOMAIN wells) =>
              LET rc  == << IndexOf(ROW_LABELS, annots[k].well[1]),
                            PyInt(Tail(annots[k].well)).val >>
                  box == outlines[<< rc[1] - 1, rc[2] - 1 >>]
                  xy  == coords[k]
              IN  /\ xy = get_well_coords(annots[k].well).xy
                  /\ xy[1] - wells[xy].radius = box[1]
                  /\ xy[2] - wells[xy].radius = box[2]
                  /\ xy[1] + wells[xy].radius = box[3]
                  /\ xy[2] + wells[xy].radius = box[4]

\* The template is drawn and draw_annotations has filled the circle of well H12.
C10_Witness ==
    /\ outlines # << >>
    /\ get_well_coords(W_H12).xy \in DOMAIN wells

====
